---------------------------- MODULE Spec2Model ----------------------------
(***************************************************************************)
(* A model of src/shop.py: a console shop manager that keeps an inventory  *)
(* (inventory.csv) and a sales ledger (sales.csv).                         *)
(*                                                                         *)
(* Text is modelled as a sequence of strings, each a character or a run of *)
(* ordinary characters ("done", "product_id").  A CSV file is modelled as  *)
(* the sequence of rows that were written to it, each row the              *)
(* sequence of its fields as text: csv.writer's quoting and csv.reader's   *)
(* unquoting cancel, what remains of the file layer is the conversion of   *)
(* values to text on writing (str of an int, repr of a float), the         *)
(* universal-newline translation of files opened for reading without       *)
(* newline="", and the parsing of text on reading (float(), int()).        *)
(*                                                                         *)
(* Prices are floats; the model holds a float as its number of halves, so  *)
(* that the prices used (1.5, 2.0, ...) and their products with small      *)
(* integers are exact, as they are in binary floating point.               *)
(*                                                                         *)
(* The calls to logging (shop.log) change nothing the program reads back   *)
(* and are left out; everything printed to the operator is kept.           *)
(***************************************************************************)
EXTENDS Integers, Sequences, FiniteSets

(***************************************************************************)
(* Bounds of the model.                                                    *)
(***************************************************************************)
\* Stands for sys.float_info.max: an int of larger magnitude does not
\* convert to float (OverflowError).  The real value is about 1.8e308.
MaxFloatInt == 4
\* A sale item with a negative quantity raises the stock; the model follows
\* such a sale only while the stock stays at or below this.
MaxStock == 2
\* Line items collected in one sale.
MaxItems == 2
\* Data rows of the ledger: a sale starts while a row fits, and collects
\* no more items than fit.
MaxLedgerRows == 2
\* Program runs after the first (Restart).
MaxRestarts == 1

(***************************************************************************)
(* Text.                                                                   *)
(***************************************************************************)
CR == "\r"
LF == "\n"

Whitespace == {" ", "\t", CR, LF}

RECURSIVE LStrip(_)
LStrip(s) ==
    IF s # <<>> /\ Head(s) \in Whitespace THEN LStrip(Tail(s)) ELSE s

RECURSIVE RStrip(_)
RStrip(s) ==
    IF s # <<>> /\ s[Len(s)] \in Whitespace
    THEN RStrip(SubSeq(s, 1, Len(s) - 1))
    ELSE s

\* str.strip()
Strip(s) == RStrip(LStrip(s))

LowerChar(c) ==
    CASE c = "DONE" -> "done"
      [] c = "Done" -> "done"
      [] OTHER -> c

\* str.lower(), on the letters the model uses
Lower(s) == [i \in 1..Len(s) |-> LowerChar(s[i])]

(***************************************************************************)
(* Numbers and their text.  A conversion that raises ValueError yields     *)
(* ok = FALSE.                                                             *)
(***************************************************************************)
DigitChars == <<"0", "1", "2", "3", "4", "5", "6", "7", "8", "9">>

IsDigit(c) == \E d \in 1..10 : DigitChars[d] = c

DigitOf(c) == (CHOOSE d \in 1..10 : DigitChars[d] = c) - 1

AllDigits(s) == \A i \in 1..Len(s) : IsDigit(s[i])

RECURSIVE DigitsVal(_)
DigitsVal(s) ==
    IF s = <<>> THEN 0
    ELSE 10 * DigitsVal(SubSeq(s, 1, Len(s) - 1)) + DigitOf(s[Len(s)])

Abs(n) == IF n < 0 THEN -n ELSE n

HasSign(s) == s # <<>> /\ Head(s) \in {"-", "+"}

Unsigned(s) == IF HasSign(s) THEN Tail(s) ELSE s

SignOf(s) == IF s # <<>> /\ Head(s) = "-" THEN -1 ELSE 1

\* int(text): optional surrounding whitespace, optional sign, digits (digit
\* separators and the digits of other scripts are not among the inputs)
ParseInt(text) ==
    LET s == Strip(text)
        d == Unsigned(s)
    IN  IF d # <<>> /\ AllDigits(d)
        THEN [ok |-> TRUE, val |-> SignOf(s) * DigitsVal(d)]
        ELSE [ok |-> FALSE, val |-> 0]

RECURSIVE NatToStr(_)
NatToStr(n) ==
    IF n < 10 THEN <<DigitChars[n + 1]>>
    ELSE NatToStr(n \div 10) \o <<DigitChars[(n % 10) + 1]>>

\* str(n) of an int
IntToStr(n) == IF n < 0 THEN <<"-">> \o NatToStr(-n) ELSE NatToStr(n)

RECURSIVE DropTrailingZeros(_)
DropTrailingZeros(s) ==
    IF s # <<>> /\ s[Len(s)] = "0"
    THEN DropTrailingZeros(SubSeq(s, 1, Len(s) - 1))
    ELSE s

DotAt(s) == IF \E i \in 1..Len(s) : s[i] = "."
            THEN CHOOSE i \in 1..Len(s) : s[i] = "." /\ \A j \in 1..(i - 1) : s[j] # "."
            ELSE 0

\* float(text), in halves: optional sign, digits, optional point and
\* fraction, at least one digit.  The model's prices have the fractions .0
\* and .5 only; text with another fraction, an exponent, inf or nan is not
\* among the model's inputs.
ParseFloat(text) ==
    LET s == Strip(text)
        d == Unsigned(s)
        k == DotAt(d)
        ip == IF k = 0 THEN d ELSE SubSeq(d, 1, k - 1)
        fp == IF k = 0 THEN <<>> ELSE SubSeq(d, k + 1, Len(d))
        fr == DropTrailingZeros(fp)
    IN  IF /\ AllDigits(ip) /\ AllDigits(fp)
           /\ Len(ip) + Len(fp) > 0
           /\ fr \in {<<>>, <<"5">>}
        THEN [ok |-> TRUE,
              val |-> SignOf(s) * (2 * DigitsVal(ip) + (IF fr = <<>> THEN 0 ELSE 1))]
        ELSE [ok |-> FALSE, val |-> 0]

\* repr(x) of a float x held in halves, as csv.writer writes it
FloatRepr(h) ==
    (IF h < 0 THEN <<"-">> ELSE <<>>)
        \o NatToStr(Abs(h) \div 2)
        \o <<".">>
        \o (IF Abs(h) % 2 = 0 THEN <<"0">> ELSE <<"5">>)

\* float * int (src/shop.py:77): the int is converted to float first, which
\* raises OverflowError when it is out of the float range.
FloatTimesInt(x, n) ==
    IF Abs(n) > MaxFloatInt
    THEN [raised |-> TRUE, val |-> 0]
    ELSE [raised |-> FALSE, val |-> x * n]

\* What a text-mode file opened without newline="" hands to csv.reader:
\* universal newlines, "\r\n" and "\r" both read as "\n".
RECURSIVE ReadText(_)
ReadText(s) ==
    IF s = <<>> THEN <<>>
    ELSE IF Head(s) = CR
         THEN IF Len(s) >= 2 /\ s[2] = LF
              THEN <<LF>> \o ReadText(Tail(Tail(s)))
              ELSE <<LF>> \o ReadText(Tail(s))
         ELSE <<Head(s)>> \o ReadText(Tail(s))

ReadRow(row) == [i \in 1..Len(row) |-> ReadText(row[i])]

\* list(csv.reader(file)) of a file opened with open(filename, "r")
ReadRows(rows) == [i \in 1..Len(rows) |-> ReadRow(rows[i])]

(***************************************************************************)
(* What the operator sees and what reaches the disk, in order: the events  *)
(* of the last handler.                                                    *)
(***************************************************************************)
Event(kind, text, args, table) ==
    [kind |-> kind, text |-> text, args |-> args, table |-> table]

Say(text) == Event("print", text, <<>>, <<>>)

SayWith(text, args) == Event("print", text, args, <<>>)

\* tabulate(table, ...)
SayTable(text, table) == Event("print", text, <<>>, table)

\* open(filename, "w") / open(filename, "a") and the rows written
FileWrite(mode, filename) == Event(mode, filename, <<>>, <<>>)

NoFile == [exists |-> FALSE, rows |-> <<>>]

(***************************************************************************)
(* class Product, and the dict Inventory.products (insertion-ordered).     *)
(***************************************************************************)
Product(product_id, name, price, quantity) ==
    [product_id |-> product_id, name |-> name, price |-> price, quantity |-> quantity]

Keys(d) == {d[i].product_id : i \in 1..Len(d)}

IndexOf(d, k) == CHOOSE i \in 1..Len(d) : d[i].product_id = k

Lookup(d, k) == d[IndexOf(d, k)]

\* d[k] = v
DictSet(d, k, v) ==
    IF k \in Keys(d) THEN [d EXCEPT ![IndexOf(d, k)] = v] ELSE Append(d, v)

(***************************************************************************)
(* class Inventory                                                         *)
(***************************************************************************)
InventoryFilename == "inventory.csv"

InventoryHeader == <<<<"product_id">>, <<"product_name">>, <<"price">>, <<"quantity">>>>

\* The loop of load_inventory over the rows after the header; an exception
\* (unpacking a row of more than four fields, float(), int()) ends the loop
\* and the products read so far are returned.
RECURSIVE LoadRows(_, _)
LoadRows(rows, products) ==
    IF rows = <<>> THEN products
    ELSE LET row == Head(rows)
         IN  IF Len(row) < 4 THEN LoadRows(Tail(rows), products)
             ELSE IF \/ Len(row) # 4
                     \/ ~ParseFloat(row[3]).ok
                     \/ ~ParseInt(row[4]).ok
                  THEN products
                  ELSE LoadRows(Tail(rows),
                                DictSet(products, row[1],
                                        Product(row[1], row[2],
                                                ParseFloat(row[3]).val,
                                                ParseInt(row[4]).val)))

load_inventory(file) ==
    IF ~file.exists THEN <<>>
    ELSE LET rows == ReadRows(file.rows)
         IN  IF rows = <<>> THEN <<>> ELSE LoadRows(Tail(rows), <<>>)

ProductRow(p) == <<p.product_id, p.name, FloatRepr(p.price), IntToStr(p.quantity)>>

save_inventory(products) ==
    [exists |-> TRUE,
     rows |-> <<InventoryHeader>> \o [i \in 1..Len(products) |-> ProductRow(products[i])]]

\* add_product without its check for an existing id: the record is replaced.
Inventory_add_product_Overwrite(products, file, product_id, name, price, quantity) ==
    LET added == DictSet(products, product_id,
                         Product(product_id, name, price, quantity))
    IN  [products |-> added, invFile |-> save_inventory(added),
         trace |-> <<FileWrite("w", InventoryFilename),
                     Say("Product added successfully!")>>]

Inventory_add_product(products, file, product_id, name, price, quantity) ==
    IF product_id \in Keys(products)
    THEN [products |-> products, invFile |-> file,
          trace |-> <<Say("Product ID already exists!")>>]
    ELSE LET added == DictSet(products, product_id,
                              Product(product_id, name, price, quantity))
         IN  [products |-> added, invFile |-> save_inventory(added),
              trace |-> <<FileWrite("w", InventoryFilename),
                          Say("Product added successfully!")>>]

view_inventory(products) ==
    IF products = <<>>
    THEN <<Say("No products in inventory.")>>
    ELSE <<SayTable("inventory",
                      [i \in 1..Len(products) |->
                          <<products[i].product_id, products[i].name,
                            FloatRepr(products[i].price),
                            IntToStr(products[i].quantity)>>])>>

(***************************************************************************)
(* class Sale                                                              *)
(***************************************************************************)
Sale(sale_id) == [sale_id |-> sale_id, items |-> <<>>]

NoSale == Sale(<<>>)

Sale_add_item(sale, product, quantity) ==
    LET total_price == FloatTimesInt(product.price, quantity)
    IN  IF total_price.raised
        THEN [raised |-> TRUE, sale |-> sale, total_price |-> 0]
        ELSE [raised |-> FALSE,
              sale |-> [sale EXCEPT !.items =
                           Append(@, <<product.product_id, product.name,
                                       quantity, total_price.val>>)],
              total_price |-> total_price.val]

(***************************************************************************)
(* class SalesManager                                                      *)
(***************************************************************************)
SalesFilename == "sales.csv"

SalesHeader ==
    <<<<"Sale ID">>, <<"Product ID">>, <<"Product Name">>,
      <<"Quantity Sold">>, <<"Total Price">>>>

ensure_sales_file(file) ==
    IF ~file.exists THEN [exists |-> TRUE, rows |-> <<SalesHeader>>] ELSE file

get_existing_sales(file) ==
    IF ~file.exists THEN {}
    ELSE LET rows == ReadRows(file.rows)
         IN  {rows[i][1] : i \in {j \in 2..Len(rows) : rows[j] # <<>>}}

\* writer.writerow([sale.sale_id] + item)
SaleRow(sale_id, item) ==
    <<sale_id, item[1], item[2], IntToStr(item[3]), FloatRepr(item[4])>>

\* save_sale writing the first line item only.
save_sale_FirstItemOnly(file, sale) ==
    IF sale.sale_id \in get_existing_sales(file)
    THEN [salesFile |-> file, saved |-> FALSE,
          trace |-> <<Say("Sale ID already exists. Choose a different ID.")>>]
    ELSE [salesFile |->
              [exists |-> TRUE,
               rows |-> file.rows \o
                        [i \in 1..(IF sale.items = <<>> THEN 0 ELSE 1) |->
                            SaleRow(sale.sale_id, sale.items[i])]],
          saved |-> TRUE,
          trace |-> <<FileWrite("a", SalesFilename)>>]

save_sale(file, sale) ==
    IF sale.sale_id \in get_existing_sales(file)
    THEN [salesFile |-> file, saved |-> FALSE,
          trace |-> <<Say("Sale ID already exists. Choose a different ID.")>>]
    ELSE [salesFile |->
              [exists |-> TRUE,
               rows |-> file.rows \o
                        [i \in 1..Len(sale.items) |-> SaleRow(sale.sale_id, sale.items[i])]],
          saved |-> TRUE,
          trace |-> <<FileWrite("a", SalesFilename)>>]

view_sales(file) ==
    IF ~file.exists THEN <<Say("No sales recorded yet.")>>
    ELSE LET sales == ReadRows(file.rows)
         IN  IF Len(sales) <= 1
             THEN <<Say("No sales recorded yet.")>>
             ELSE <<SayTable("sales", sales)>>

(***************************************************************************)
(* class ShopSystem: the handlers, from one prompt to the next.            *)
(***************************************************************************)
ShopSystem_add_product(products, file, in_id, in_name, in_price, in_quantity) ==
    LET product_id == Strip(in_id)
        name == Strip(in_name)
        price == ParseFloat(Strip(in_price))
        quantity == ParseInt(Strip(in_quantity))
    IN  IF ~price.ok \/ ~quantity.ok
        THEN [products |-> products, invFile |-> file,
              trace |-> <<Say("Invalid input! Price must be a number, and quantity must be an integer.")>>]
        ELSE Inventory_add_product(products, file, product_id, name,
                                   price.val, quantity.val)

\* "{total_price:.2f}" of a float held in halves
Fixed2(h) ==
    (IF h < 0 THEN <<"-">> ELSE <<>>)
        \o NatToStr(Abs(h) \div 2)
        \o (IF Abs(h) % 2 = 0 THEN <<".", "0", "0">> ELSE <<".", "5", "0">>)

\* A stock check that lets through one more than is in stock.
InsufficientStock_OffByOne(quantity, product) == quantity > product.quantity + 1

\* if quantity > product.quantity
InsufficientStock(quantity, product) == quantity > product.quantity

\* One round of the while loop of process_sale for an input other than
\* "done".  raised: an exception left the loop, the handler and the menu.
process_sale_item(products, sale, in_id, in_quantity) ==
    LET product_id == Strip(in_id)
        same(msg) == [products |-> products, sale |-> sale, raised |-> FALSE,
                      trace |-> <<Say(msg)>>]
    IN  IF product_id \notin Keys(products)
        THEN same("Invalid Product ID. Try again.")
        ELSE LET product == Lookup(products, product_id)
                 quantity == ParseInt(Strip(in_quantity))
             IN  IF ~quantity.ok
                 THEN same("Invalid quantity! Enter a valid integer.")
                 ELSE IF InsufficientStock(quantity.val, product)
                      THEN same("Not enough stock available.")
                      ELSE LET r == Sale_add_item(sale, product, quantity.val)
                           IN  IF r.raised
                               THEN [products |-> products, sale |-> sale,
                                     raised |-> TRUE,
                                     trace |-> <<Say("OverflowError: int too large to convert to float")>>]
                               ELSE [products |->
                                         DictSet(products, product_id,
                                                 [product EXCEPT !.quantity = @ - quantity.val]),
                                     sale |-> r.sale,
                                     raised |-> FALSE,
                                     trace |-> <<SayWith("Added {quantity} of {product.name} to sale. Total: ${total_price:.2f}",
                                                           <<IntToStr(quantity.val), product.name,
                                                             Fixed2(r.total_price)>>)>>]

\* The end of process_sale with the two saves in the other order.
process_sale_done_SaleFirst(products, sales_file, sale) ==
    LET r == save_sale(sales_file, sale)
        inv == save_inventory(products)
    IN  [invFile |-> inv, salesFile |-> r.salesFile, saved |-> r.saved,
         trace |-> r.trace
                   \o <<FileWrite("w", InventoryFilename)>>
                   \o <<SayWith("Sale {sale_id} recorded successfully.", <<sale.sale_id>>)>>]

\* The end of process_sale, after the operator entered "done".
process_sale_done(products, sales_file, sale) ==
    LET inv == save_inventory(products)
        r == save_sale(sales_file, sale)
    IN  [invFile |-> inv, salesFile |-> r.salesFile, saved |-> r.saved,
         trace |-> <<FileWrite("w", InventoryFilename)>>
                   \o r.trace
                   \o <<SayWith("Sale {sale_id} recorded successfully.", <<sale.sale_id>>)>>]


(***************************************************************************)
(* The operator's inputs: the lines input() returns, before strip().       *)
(***************************************************************************)
ChoiceInputs == {<<"1">>, <<"2">>, <<"3">>, <<"4">>, <<"5">>, <<"7">>, <<" ", "4">>}

\* What the operator answers to the four prompts of add_product: id, name,
\* price, quantity.  The first two name the same product with different
\* data, so whichever comes second is a duplicate.
AddInputs ==
    { <<<<"a">>, <<"n">>, <<"1", ".", "5">>, <<"2">>>>,
      <<<<"a", " ">>, <<"x", CR, "y">>, <<"2">>, <<"9">>>>,
      <<<<"b">>, <<"x", CR, "y">>, <<"1", ".", "5">>, <<"-", "1">>>>,
      <<<<"b">>, <<"n">>, <<"x">>, <<"2">>>>,
      <<<<"b">>, <<"n">>, <<"2">>, <<"q">>>> }

\* What the operator answers to "Enter Product ID to sell" (other than done)
IdInputs == {<<"a", " ">>, <<"b">>}

\* What the operator answers to "Enter quantity for ..."
QuantityInputs == {<<"-", "1">>, <<"2">>, <<"9">>, <<"q">>}

SaleIdInputs == {<<"s">>, <<"t", CR, "u">>}

DoneInputs == {<<"done">>, <<"DONE">>}

VARIABLES
    pc,         \* "menu": at the menu prompt; "collecting": in the loop of
                \* process_sale; "exited": after choice 5; "crashed": an
                \* uncaught exception ended the process
    choice,     \* the last menu choice read
    products,   \* Inventory.products
    invFile,    \* inventory.csv
    salesFile,  \* sales.csv
    sale,       \* the Sale of the running process_sale
    trace,      \* the events of the last handler
    runs,       \* how often the program was started again
    addedWith,  \* history: product id -> quantity of its successful add in this run
    rejected    \* history: a save_sale of this run was rejected

vars == <<pc, choice, products, invFile, salesFile, sale, trace, runs, addedWith, rejected>>

\* ShopSystem(): Inventory() on a missing inventory.csv, SalesManager()
\* creating sales.csv
Init ==
    /\ pc = "menu"
    /\ choice = <<>>
    /\ products = load_inventory(NoFile)
    /\ invFile = NoFile
    /\ salesFile = ensure_sales_file(NoFile)
    /\ sale = NoSale
    /\ trace = <<>>
    /\ runs = 0
    /\ addedWith = [k \in {} |-> 0]
    /\ rejected = FALSE

Chosen(c, n) == pc = "menu" /\ Strip(c) = <<n>> /\ choice' = Strip(c)

ViewInventory ==
    \E c \in ChoiceInputs :
        /\ Chosen(c, "1")
        /\ trace' = view_inventory(products)
        /\ UNCHANGED <<pc, products, invFile, salesFile, sale, runs, addedWith, rejected>>

AddProductWith(in) ==
    /\ \E c \in ChoiceInputs : Chosen(c, "2")
    /\ LET r == ShopSystem_add_product(products, invFile, in[1], in[2], in[3], in[4])
       IN  /\ products' = r.products
           /\ invFile' = r.invFile
           /\ trace' = r.trace
           /\ addedWith' =
                  IF Len(r.products) > Len(products)
                  THEN [k \in DOMAIN addedWith \cup {Strip(in[1])} |->
                           IF k = Strip(in[1])
                           THEN ParseInt(in[4]).val
                           ELSE addedWith[k]]
                  ELSE addedWith
    /\ UNCHANGED <<pc, salesFile, sale, runs, rejected>>

AddProduct == \E in \in AddInputs : AddProductWith(in)

DataRows(file) == IF file.rows = <<>> THEN <<>> ELSE Tail(file.rows)

ProcessSale ==
    \E c \in ChoiceInputs :
        /\ Chosen(c, "3")
        /\ Len(DataRows(salesFile)) < MaxLedgerRows
        /\ \E in_id \in SaleIdInputs : sale' = Sale(Strip(in_id))
        /\ pc' = "collecting"
        /\ trace' = <<>>
        /\ UNCHANGED <<products, invFile, salesFile, runs, addedWith, rejected>>

SaleItemWith(in_id, in_quantity) ==
    /\ pc = "collecting"
    /\ Lower(Strip(in_id)) # <<"done">>
    /\ LET r == process_sale_item(products, sale, in_id, in_quantity)
       IN  /\ Len(r.sale.items) <= MaxItems
           /\ Len(DataRows(salesFile)) + Len(r.sale.items) <= MaxLedgerRows
           /\ \A i \in 1..Len(products) :
                  r.products[i].quantity > products[i].quantity
                      => r.products[i].quantity <= MaxStock
           /\ products' = r.products
           /\ sale' = r.sale
           /\ trace' = r.trace
           /\ pc' = IF r.raised THEN "crashed" ELSE "collecting"
    /\ UNCHANGED <<choice, invFile, salesFile, runs, addedWith, rejected>>

SaleItem ==
    \E in_id \in IdInputs, in_quantity \in QuantityInputs :
        SaleItemWith(in_id, in_quantity)

SaleDone ==
    \E in_id \in DoneInputs :
        /\ pc = "collecting"
        /\ Lower(Strip(in_id)) = <<"done">>
        /\ LET r == process_sale_done(products, salesFile, sale)
           IN  /\ invFile' = r.invFile
               /\ salesFile' = r.salesFile
               /\ trace' = r.trace
               /\ rejected' = (rejected \/ ~r.saved)
        /\ pc' = "menu"
        /\ sale' = NoSale
        /\ UNCHANGED <<choice, products, runs, addedWith>>

ViewSales ==
    \E c \in ChoiceInputs :
        /\ Chosen(c, "4")
        /\ trace' = view_sales(salesFile)
        /\ UNCHANGED <<pc, products, invFile, salesFile, sale, runs, addedWith, rejected>>

Exit ==
    \E c \in ChoiceInputs :
        /\ Chosen(c, "5")
        /\ trace' = <<Say("Exiting system. Goodbye!")>>
        /\ pc' = "exited"
        /\ UNCHANGED <<products, invFile, salesFile, sale, runs, addedWith, rejected>>

InvalidChoice ==
    \E c \in ChoiceInputs :
        /\ pc = "menu"
        /\ Strip(c) \notin {<<"1">>, <<"2">>, <<"3">>, <<"4">>, <<"5">>}
        /\ choice' = Strip(c)
        /\ trace' = <<Say("Invalid choice. Please try again.")>>
        /\ UNCHANGED <<pc, products, invFile, salesFile, sale, runs, addedWith, rejected>>

Next ==
    \/ ViewInventory
    \/ AddProduct
    \/ ProcessSale
    \/ SaleItem
    \/ SaleDone
    \/ ViewSales
    \/ Exit
    \/ InvalidChoice

\* One run of the program, from its start on no files.
Spec == Init /\ [][Next]_vars

\* The program is started again: ShopSystem().menu() on the files as left.
Restart ==
    /\ pc \in {"exited", "crashed"}
    /\ runs < MaxRestarts
    /\ runs' = runs + 1
    /\ products' = load_inventory(invFile)
    /\ salesFile' = ensure_sales_file(salesFile)
    /\ pc' = "menu"
    /\ choice' = <<>>
    /\ sale' = NoSale
    /\ trace' = <<>>
    /\ addedWith' = [k \in {} |-> 0]
    /\ rejected' = FALSE
    /\ UNCHANGED invFile

NextRestart ==
    \/ Next
    \/ Restart

\* Runs of the program one after the other on the same files.
SpecRestart == Init /\ [][NextRestart]_vars

(***************************************************************************)
(* Properties.                                                             *)
(***************************************************************************)
\* The ids of the sales recorded in the ledger file: the first field of each
\* row after the header, as written.
LedgerIds(file) == {file.rows[i][1] : i \in 2..Len(file.rows)}

\* The step is the end of process_sale (the operator entered "done").
DoneStep == pc = "collecting" /\ pc' = "menu"

\* writer.writerow([sale.sale_id] + item) for each item of the sale
SaleRows(s) == [i \in 1..Len(s.items) |-> SaleRow(s.sale_id, s.items[i])]

\* C1: save_sale with a sale id that is already the first field of a ledger
\* row appends nothing: the ledger after the call is the ledger before it.
C1_DuplicateSaleAppendsNothing ==
    [][(DoneStep /\ sale.sale_id \in LedgerIds(salesFile))
           => salesFile' = salesFile]_vars

\* C2: in a run that started with an empty inventory, every product's
\* quantity is >= 0, in memory and in the inventory file.
C2_QuantityNeverNegative ==
    runs = 0 =>
        /\ \A i \in 1..Len(products) : products[i].quantity >= 0
        /\ \A i \in 2..Len(invFile.rows) : ParseInt(invFile.rows[i][4]).val >= 0

\* The inputs name a product in stock and a quantity that int() accepts and
\* that does not exceed the stock.
Sellable(in_id, in_quantity) ==
    /\ Strip(in_id) \in Keys(products)
    /\ ParseInt(Strip(in_quantity)).ok
    /\ ParseInt(Strip(in_quantity)).val <= Lookup(products, Strip(in_id)).quantity

\* What C3 says of such a step: the product's stock is s - q, one line item
\* (id, name, q, p * q) is appended to the sale, the other products are
\* unchanged.
SoldExactly(in_id, in_quantity) ==
    LET product_id == Strip(in_id)
        q == ParseInt(Strip(in_quantity)).val
        k == IndexOf(products, product_id)
        p == products[k]
    IN  /\ Len(products') = Len(products)
        /\ products'[k] = [p EXCEPT !.quantity = p.quantity - q]
        /\ \A i \in 1..Len(products) : i # k => products'[i] = products[i]
        /\ sale'.sale_id = sale.sale_id
        /\ sale'.items = Append(sale.items, <<p.product_id, p.name, q, p.price * q>>)

\* C3: in process_sale, entering a quantity q <= s for an existing product
\* with stock s and price p sets its stock to s - q, appends the one line
\* item (id, name, q, p * q) and leaves the other products unchanged.
C3_SaleItemDecrementsAndRecords ==
    [][\A in_id \in IdInputs, in_quantity \in QuantityInputs :
           (pc = "collecting" /\ Sellable(in_id, in_quantity)
                /\ SaleItemWith(in_id, in_quantity))
               => SoldExactly(in_id, in_quantity)]_vars

\* C4: in process_sale, an unknown product id, a quantity that is no
\* integer and a quantity above the product's stock change neither the
\* stock of any product nor the line items of the sale, and the sale goes
\* on collecting items.
C4_RejectedItemChangesNothing ==
    [][\A in_id \in IdInputs, in_quantity \in QuantityInputs :
           (pc = "collecting" /\ ~Sellable(in_id, in_quantity)
                /\ SaleItemWith(in_id, in_quantity))
               => /\ products' = products
                  /\ sale' = sale
                  /\ invFile' = invFile
                  /\ pc' = "collecting"]_vars

C4_Witness ==
    /\ pc = "collecting"
    /\ trace = <<Say("Not enough stock available.")>>
    /\ Len(sale.items) = 1
    /\ Len(products) = 2

\* C5: add_product with a product id already in the inventory leaves the
\* inventory and the inventory file unchanged, whatever name, price and
\* quantity come with it; and no step from menu prompt to menu prompt (the
\* adds, the views, an unknown choice) changes or removes a record that is
\* in the inventory, so each id keeps the record of its first add.
C5_DuplicateAddChangesNothing ==
    [][/\ \A in \in AddInputs :
              (AddProductWith(in) /\ Strip(in[1]) \in Keys(products))
                  => products' = products /\ invFile' = invFile
       /\ (pc = "menu" /\ pc' = "menu")
              => /\ Len(products') >= Len(products)
                 /\ \A i \in 1..Len(products) : products'[i] = products[i]]_vars

C5_Witness ==
    /\ pc = "menu"
    /\ trace = <<Say("Product ID already exists!")>>
    /\ Len(products) = 2
    /\ \E i \in 1..2 : products[i].name = <<"x", CR, "y">> /\ products[i].product_id = <<"a">>

\* The set of (id, name, price, quantity) tuples of an inventory
Tuples(d) == {<<d[i].product_id, d[i].name, d[i].price, d[i].quantity>> : i \in 1..Len(d)}

\* C6: save_inventory followed by load_inventory yields the tuples of the
\* inventory that was saved.
C6_SaveLoadRoundTrip ==
    Tuples(load_inventory(save_inventory(products))) = Tuples(products)

\* C7: the program ends only by the menu choice "5".
C7_OnlyExitChoiceTerminates ==
    pc \in {"exited", "crashed"} => choice = <<"5">>

\* save_sale finds the sale's id among the ids it reads from the ledger.
Refused == sale.sale_id \in get_existing_sales(salesFile)

\* C8: at the end of process_sale the inventory file is written before the
\* sale is saved, it holds the stock as the sale's items left it, and so
\* does the inventory in memory, also when the save is refused; a refused
\* save leaves the ledger unchanged.
C8_InventorySavedFirstNoRollback ==
    [][DoneStep =>
          /\ products' = products
          /\ invFile' = save_inventory(products)
          /\ Len(trace') = 3
          /\ trace'[1] = FileWrite("w", InventoryFilename)
          /\ IF Refused
             THEN /\ trace'[2].kind = "print"
                  /\ salesFile' = salesFile
             ELSE /\ trace'[2] = FileWrite("a", SalesFilename)
                  /\ salesFile'.rows = salesFile.rows \o SaleRows(sale)]_vars

\* A refused save after a sale that took stock: the file holds the lower
\* stock, the ledger has no row of it.
C8_Witness ==
    /\ pc = "menu"
    /\ runs = 0
    /\ Len(trace) = 3
    /\ trace[2] = Say("Sale ID already exists. Choose a different ID.")
    /\ Len(DataRows(salesFile)) = 1
    /\ invFile = save_inventory(products)
    /\ \E i \in 1..Len(products) :
           /\ products[i].product_id = <<"a">>
           /\ addedWith[<<"a">>] = 9
           /\ products[i].quantity = 5

RECURSIVE SumSold(_, _)
SumSold(rows, product_id) ==
    IF rows = <<>> THEN 0
    ELSE (IF Head(rows)[2] = product_id THEN ParseInt(Head(rows)[4]).val ELSE 0)
             + SumSold(Tail(rows), product_id)

\* The sum of "Quantity Sold" over the ledger rows of a product
LedgerSold(file, product_id) == SumSold(DataRows(file), product_id)

\* C9: in a run that started with an empty inventory and an empty ledger and
\* in which no save was refused, between operations every product's stock
\* plus the quantities the ledger records as sold of it is the quantity it
\* was added with.
C9_StockConservation ==
    (pc = "menu" /\ runs = 0 /\ ~rejected) =>
        \A i \in 1..Len(products) :
            products[i].quantity + LedgerSold(salesFile, products[i].product_id)
                = addedWith[products[i].product_id]

C9_Witness ==
    /\ pc = "menu" /\ runs = 0 /\ ~rejected
    /\ Len(products) = 2
    /\ Len(DataRows(salesFile)) = 2
    /\ salesFile.rows[2][2] # salesFile.rows[3][2]

SuccessShown(t) ==
    \E i \in 1..Len(t) : t[i].text = "Sale {sale_id} recorded successfully."

\* C10: process_sale shows "Sale <id> recorded successfully." only when it
\* appended the sale's line items to the ledger, and not when the save was
\* refused.
C10_SuccessOnlyWhenSaved ==
    [][(DoneStep /\ SuccessShown(trace'))
           => /\ ~Refused
              /\ salesFile'.rows = salesFile.rows \o SaleRows(sale)]_vars

=============================================================================
